---- MODULE Spec2Model ----
(***************************************************************************)
(* Omegatron: an OpenAI-compatible facade (src/main.py) that dispatches    *)
(* chat-completion requests to provider adapters (src/providers/*.py) and  *)
(* replays the collected answer as a synthetic stream.                     *)
(*                                                                         *)
(* Texts (message contents, upstream bodies, error messages) are sequences *)
(* of string fragments; where the code looks inside a text (split, regex,  *)
(* replace) the fragments are single characters.  Python's None and        *)
(* optional values are sequences of length at most one.  Ids made from     *)
(* uuid4 and timestamps are left out of the records.                       *)
(***************************************************************************)
EXTENDS Naturals, Sequences, FiniteSets, TLC

(* ------------------------------------------------------------------ *)
(* Bounds of the model                                                   *)
(* ------------------------------------------------------------------ *)

\* number of request-handling tasks alive on the event loop
NumTasks == 2

\* longest content handed to stream_chat_completion when it is called directly
MaxLen == 7

\* number of adapters registered, and longest get_models() list, when the
\* registration loop is run on arbitrary adapters
NumAdapters == 3

MaxModels == 2

Tasks == 1..NumTasks

(* ------------------------------------------------------------------ *)
(* Python helpers on sequences and texts                                 *)
(* ------------------------------------------------------------------ *)

Range(s) == {s[i] : i \in 1..Len(s)}

\* seq[i:j] with 0-based i, exclusive j, clipped as Python slices are
Slice(s, i, j) ==
  LET hi == IF j < Len(s) THEN j ELSE Len(s)
  IN  IF i >= hi THEN <<>> ELSE SubSeq(s, i + 1, hi)

RECURSIVE Concat(_)
Concat(ss) == IF ss = <<>> THEN <<>> ELSE Head(ss) \o Concat(Tail(ss))

\* str.isspace for the characters of the model's alphabets
IsSpace(c) == c \in {" ", "\n", "\t", "\r"}

\* str.split() without arguments: runs of whitespace separate, no empty words
RECURSIVE SplitFrom(_, _, _)
SplitFrom(s, i, cur) ==
  IF i > Len(s)
  THEN IF cur = <<>> THEN <<>> ELSE <<cur>>
  ELSE IF IsSpace(s[i])
       THEN IF cur = <<>>
            THEN SplitFrom(s, i + 1, <<>>)
            ELSE <<cur>> \o SplitFrom(s, i + 1, <<>>)
       ELSE SplitFrom(s, i + 1, Append(cur, s[i]))

Split(s) == SplitFrom(s, 1, <<>>)

\* sep.join(words)
RECURSIVE Join(_, _)
Join(sep, ws) ==
  IF ws = <<>> THEN <<>>
  ELSE IF Len(ws) = 1 THEN ws[1]
       ELSE ws[1] \o sep \o Join(sep, Tail(ws))

\* s.startswith(p) from 1-based position i
MatchAt(s, i, p) ==
  /\ i + Len(p) - 1 <= Len(s)
  /\ \A k \in 1..Len(p) : s[i + k - 1] = p[k]

\* s.replace(old, new): left to right, non-overlapping (old is not empty)
RECURSIVE ReplaceFrom(_, _, _, _)
ReplaceFrom(s, i, old, new) ==
  IF i > Len(s) THEN <<>>
  ELSE IF MatchAt(s, i, old)
       THEN new \o ReplaceFrom(s, i + Len(old), old, new)
       ELSE <<s[i]>> \o ReplaceFrom(s, i + 1, old, new)

Replace(s, old, new) == ReplaceFrom(s, 1, old, new)

\* s.strip()
RECURSIVE LStrip(_)
LStrip(s) == IF s # <<>> /\ IsSpace(Head(s)) THEN LStrip(Tail(s)) ELSE s

RECURSIVE RStrip(_)
RStrip(s) ==
  IF s # <<>> /\ IsSpace(s[Len(s)]) THEN RStrip(SubSeq(s, 1, Len(s) - 1)) ELSE s

Strip(s) == RStrip(LStrip(s))

\* s.split('\n'): every newline separates, empty pieces are kept
RECURSIVE SplitLinesFrom(_, _, _)
SplitLinesFrom(s, i, cur) ==
  IF i > Len(s) THEN <<cur>>
  ELSE IF s[i] = "\n"
       THEN <<cur>> \o SplitLinesFrom(s, i + 1, <<>>)
       ELSE SplitLinesFrom(s, i + 1, Append(cur, s[i]))

SplitLines(s) == SplitLinesFrom(s, 1, <<>>)

\* sum(len(msg["content"].split()) for msg in messages)
RECURSIVE WordCount(_)
WordCount(messages) ==
  IF messages = <<>> THEN 0
  ELSE Len(Split(Head(messages).content)) + WordCount(Tail(messages))

(* ------------------------------------------------------------------ *)
(* The adapters' model lists (self.models of each provider class)        *)
(* ------------------------------------------------------------------ *)

FlowithModels ==
  <<
    "gpt-5-nano", "gpt-5-mini", "glm-4.5", "gpt-oss-120b", "gpt-oss-20b", "kimi-k2",
    "gpt-4.1", "gpt-4.1-mini", "deepseek-chat", "deepseek-reasoner", "gemini-2.5-flash",
    "grok-3-mini"
  >>

CloudflareModels ==
  <<
    "deepseek-coder-6.7b-base-awq", "deepseek-coder-6.7b-instruct-awq",
    "deepseek-math-7b-instruct", "deepseek-r1-distill-qwen-32b",
    "discolm-german-7b-v1-awq", "falcon-7b-instruct", "gemma-3-12b-it", "gemma-7b-it",
    "hermes-2-pro-mistral-7b", "llama-2-13b-chat-awq", "llama-2-7b-chat-fp16",
    "llama-2-7b-chat-int8", "llama-3-8b-instruct", "llama-3-8b-instruct-awq",
    "llama-3.1-8b-instruct-awq", "llama-3.1-8b-instruct-fp8",
    "llama-3.2-11b-vision-instruct", "llama-3.2-1b-instruct", "llama-3.2-3b-instruct",
    "llama-3.3-70b-instruct-fp8-fast", "llama-4-scout-17b-16e-instruct",
    "llama-guard-3-8b", "llamaguard-7b-awq", "meta-llama-3-8b-instruct",
    "mistral-7b-instruct-v0.1", "mistral-7b-instruct-v0.2",
    "mistral-small-3.1-24b-instruct", "neural-chat-7b-v3-1-awq", "openchat-3.5-0106",
    "openhermes-2.5-mistral-7b-awq", "phi-2", "qwen1.5-0.5b-chat", "qwen1.5-1.8b-chat",
    "qwen1.5-14b-chat-awq", "qwen1.5-7b-chat-awq", "qwen2.5-coder-32b-instruct",
    "qwq-32b", "sqlcoder-7b-2", "starling-lm-7b-beta", "tinyllama-1.1b-chat-v1.0",
    "una-cybertron-7b-v2-bf16", "zephyr-7b-beta-awq"
  >>

TypefullyModels ==
  <<
    "claude-3.5-haiku"
  >>

MinimaxModels ==
  <<
    "minimax-reasoning-01"
  >>

OIVSCodeModels ==
  <<
    "gpt-4", "gpt-4-turbo", "gpt-4o", "gpt-4o-mini", "gpt-3.5-turbo",
    "gpt-3.5-turbo-16k", "o1", "o1-mini", "o1-preview", "o3-mini"
  >>

\* Python's order on the model ids (str.__lt__), as a table: every id of the
\* five provider classes and the unregistered id the requests use
LexOrder ==
  <<
    "claude-3.5-haiku", "deepseek-chat", "deepseek-coder-6.7b-base-awq",
    "deepseek-coder-6.7b-instruct-awq", "deepseek-math-7b-instruct",
    "deepseek-r1-distill-qwen-32b", "deepseek-reasoner", "discolm-german-7b-v1-awq",
    "falcon-7b-instruct", "gemini-2.5-flash", "gemma-3-12b-it", "gemma-7b-it", "glm-4.5",
    "gpt-3.5-turbo", "gpt-3.5-turbo-16k", "gpt-4", "gpt-4-turbo", "gpt-4.1",
    "gpt-4.1-mini", "gpt-4o", "gpt-4o-mini", "gpt-5-mini", "gpt-5-nano", "gpt-oss-120b",
    "gpt-oss-20b", "grok-3-mini", "hermes-2-pro-mistral-7b", "kimi-k2",
    "llama-2-13b-chat-awq", "llama-2-7b-chat-fp16", "llama-2-7b-chat-int8",
    "llama-3-8b-instruct", "llama-3-8b-instruct-awq", "llama-3.1-8b-instruct-awq",
    "llama-3.1-8b-instruct-fp8", "llama-3.2-11b-vision-instruct",
    "llama-3.2-1b-instruct", "llama-3.2-3b-instruct", "llama-3.3-70b-instruct-fp8-fast",
    "llama-4-scout-17b-16e-instruct", "llama-guard-3-8b", "llamaguard-7b-awq",
    "meta-llama-3-8b-instruct", "minimax-reasoning-01", "mistral-7b-instruct-v0.1",
    "mistral-7b-instruct-v0.2", "mistral-small-3.1-24b-instruct",
    "neural-chat-7b-v3-1-awq", "not-a-model", "o1", "o1-mini", "o1-preview", "o3-mini",
    "openchat-3.5-0106", "openhermes-2.5-mistral-7b-awq", "phi-2", "qwen1.5-0.5b-chat",
    "qwen1.5-1.8b-chat", "qwen1.5-14b-chat-awq", "qwen1.5-7b-chat-awq",
    "qwen2.5-coder-32b-instruct", "qwq-32b", "sqlcoder-7b-2", "starling-lm-7b-beta",
    "tinyllama-1.1b-chat-v1.0", "una-cybertron-7b-v2-bf16", "zephyr-7b-beta-awq"
  >>

LexRank(m) == CHOOSE i \in 1..Len(LexOrder) : LexOrder[i] = m

\* a < b on model ids
LexLess(a, b) == LexRank(a) < LexRank(b)

\* sorted(xs) on model ids: every id of the order, as often as xs holds it
Count(xs, m) == Cardinality({i \in 1..Len(xs) : xs[i] = m})

sorted(xs) ==
  Concat([k \in 1..Len(LexOrder) |-> [j \in 1..Count(xs, LexOrder[k]) |-> LexOrder[k]]])

(* ------------------------------------------------------------------ *)
(* Model registry: the module-level code of main.py                      *)
(* ------------------------------------------------------------------ *)

\* the PROVIDERS dict literal, in insertion order; OIVSCodeProvider is imported
\* by main.py but has no entry
ActualProviders ==
  << [name |-> "flowith",    models |-> FlowithModels],
     [name |-> "cloudflare", models |-> CloudflareModels],
     [name |-> "typefully",  models |-> TypefullyModels],
     [name |-> "minimax",    models |-> MinimaxModels] >>

\* provider_name in PROVIDERS
ProviderKeys(providers) == {providers[k].name : k \in 1..Len(providers)}

\* ALL_MODELS.extend(models)
ExtendModels(all, models) == all \o models

\* the map written only for ids it does not hold yet
MapModelsFirstWins(map, models, provider_name) ==
  [m \in (DOMAIN map) \cup Range(models) |->
     IF m \in DOMAIN map THEN map[m] ELSE provider_name]

\* for model in models: MODEL_PROVIDER_MAP[model] = provider_name
MapModels(map, models, provider_name) ==
  [m \in (DOMAIN map) \cup Range(models) |->
     IF m \in Range(models) THEN provider_name ELSE map[m]]

\* list(dict.fromkeys(xs)): first occurrences, in order
RECURSIVE FromKeys(_, _)
FromKeys(xs, seen) ==
  IF xs = <<>> THEN <<>>
  ELSE IF Head(xs) \in seen
       THEN FromKeys(Tail(xs), seen)
       ELSE <<Head(xs)>> \o FromKeys(Tail(xs), seen \cup {Head(xs)})

\* the list left as the loop built it
KeepDuplicates(xs) == xs

DictFromKeys(xs) == FromKeys(xs, {})

\* MODEL_PROVIDER_MAP.get(model)
MapGet(map, model) == IF model \in DOMAIN map THEN <<map[model]>> ELSE <<>>

\* not provider_name: None and the empty string are falsy
Falsy(opt) == opt = <<>> \/ opt = <<"">>

(* ------------------------------------------------------------------ *)
(* Responses of the dispatcher                                           *)
(* ------------------------------------------------------------------ *)

NoResponse == [status |-> 0, detail |-> <<>>, body |-> <<>>, streaming |-> FALSE]

\* raise HTTPException(status_code, detail)
HTTPException(status_code, detail) ==
  [status |-> status_code, detail |-> detail, body |-> <<>>, streaming |-> FALSE]

\* the detail with ALL_MODELS as it stands, the call of sorted() forgotten
NotFoundDetailUnsorted(model, all) ==
  <<"Model '", model, "' not found. Available models: ", "[">> \o all \o <<"]">>

\* f"Model '{request.model}' not found. Available models: {sorted(ALL_MODELS)}";
\* the list is written element by element between the brackets
NotFoundDetail(model, all) ==
  <<"Model '", model, "' not found. Available models: ", "[">> \o sorted(all) \o <<"]">>

\* f"No provider found for model: {request.model}"
NoProviderDetail(model) == <<"No provider found for model: ", model>>

\* the adapter's message passed on as it is
ErrorDetailBare(msg) == msg

\* f"Error generating response: {str(e)}"
ErrorDetail(msg) == <<"Error generating response: ">> \o msg

\* return response (the ChatCompletionResponse as JSON)
JSONResponse(resp) ==
  [status |-> 200, detail |-> <<>>, body |-> <<resp>>, streaming |-> FALSE]

\* return StreamingResponse(stream_chat_completion(...), media_type="text/plain")
StreamingResponse ==
  [status |-> 200, detail |-> <<>>, body |-> <<>>, streaming |-> TRUE]

(* ------------------------------------------------------------------ *)
(* Values the adapters build                                             *)
(* ------------------------------------------------------------------ *)

Message(role, content) == [role |-> role, content |-> content]

Usage(p, c, total) ==
  [prompt_tokens |-> p, completion_tokens |-> c, total_tokens |-> total]

Choice(content, finish_reason) ==
  [index |-> 0, message |-> Message("assistant", content),
   finish_reason |-> finish_reason]

ChatCompletionResponse(model, choice, usage) ==
  [object |-> "chat.completion", model |-> model, choices |-> <<choice>>,
   usage |-> usage]

\* what a call of chat_completion ended with
NoReturn == [state |-> "none", value |-> <<>>, msg |-> <<>>]

Returned(resp) == [state |-> "returned", value |-> <<resp>>, msg |-> <<>>]

Raised(msg) == [state |-> "raised", value |-> <<>>, msg |-> msg]

(* ------------------------------------------------------------------ *)
(* State                                                                 *)
(* ------------------------------------------------------------------ *)

VARIABLES
  PROVIDERS,            \* main.PROVIDERS, in insertion order
  ALL_MODELS,           \* main.ALL_MODELS
  MODEL_PROVIDER_MAP,   \* main.MODEL_PROVIDER_MAP
  boot,                 \* position in the module-level code of main.py
  sys_path,             \* number of entries appended to sys.path
  running,              \* the task executing on the event loop, 0 when all wait
  pc,                   \* per task: where its coroutine stands
  request,              \* per task: the ChatCompletionRequest
  upstream,             \* per task: what the upstream services answer
  invoked,              \* per task: adapters whose chat_completion was entered
  ret,                  \* per task: what chat_completion returned or raised
  response,             \* per task: what the client receives as HTTP response
  emitter,              \* per task: locals of stream_chat_completion
  out,                  \* per task: frames yielded to the transport
  failover,             \* per task: locals of OIVSCodeProvider.chat_completion
  extractor             \* per task: an extractor called on its own, and its result

registry == <<PROVIDERS, ALL_MODELS, MODEL_PROVIDER_MAP, boot>>

taskvars == <<pc, request, upstream, invoked, ret, response, emitter, out, failover, extractor>>

vars == <<registry, sys_path, running, taskvars>>

NoRequest == [model |-> "", messages |-> <<>>, stream |-> FALSE]

NoUpstream == [kind |-> "none"]

NoEmitter == [content |-> <<>>, model |-> "", i |-> 0]

NoFailover == [endpoints |-> <<>>, idx |-> 0, contacted |-> <<>>]

NoExtractor == [text |-> <<>>, chunk |-> <<>>, called |-> "", value |-> <<>>]

InitTasks ==
  /\ sys_path = 0
  /\ running = 0
  /\ pc = [t \in Tasks |-> "idle"]
  /\ request = [t \in Tasks |-> NoRequest]
  /\ upstream = [t \in Tasks |-> NoUpstream]
  /\ invoked = [t \in Tasks |-> <<>>]
  /\ ret = [t \in Tasks |-> NoReturn]
  /\ response = [t \in Tasks |-> NoResponse]
  /\ emitter = [t \in Tasks |-> NoEmitter]
  /\ out = [t \in Tasks |-> <<>>]
  /\ failover = [t \in Tasks |-> NoFailover]
  /\ extractor = [t \in Tasks |-> NoExtractor]

\* the process right before the registration loop of main.py runs
Init ==
  /\ PROVIDERS = ActualProviders
  /\ ALL_MODELS = <<>>
  /\ MODEL_PROVIDER_MAP = <<>>
  /\ boot = 1
  /\ InitTasks

(* ------------------------------------------------------------------ *)
(* Start-up: main.py lines 33-44                                         *)
(* ------------------------------------------------------------------ *)

\* one turn of "for provider_name, provider in PROVIDERS.items()"
RegisterProvider ==
  /\ boot \in 1..Len(PROVIDERS)
  /\ LET provider_name == PROVIDERS[boot].name
         models == PROVIDERS[boot].models
     IN  /\ ALL_MODELS' = ExtendModels(ALL_MODELS, models)
         /\ MODEL_PROVIDER_MAP' = MapModels(MODEL_PROVIDER_MAP, models, provider_name)
  /\ boot' = boot + 1
  /\ UNCHANGED <<PROVIDERS, sys_path, running, taskvars>>

\* ALL_MODELS = list(dict.fromkeys(ALL_MODELS)); the module is then loaded
RemoveDuplicates ==
  /\ boot = Len(PROVIDERS) + 1
  /\ ALL_MODELS' = DictFromKeys(ALL_MODELS)
  /\ boot' = 0
  /\ UNCHANGED <<PROVIDERS, MODEL_PROVIDER_MAP, sys_path, running, taskvars>>

Serving == boot = 0

(* ------------------------------------------------------------------ *)
(* Dispatcher: create_chat_completion, main.py lines 78-114              *)
(* ------------------------------------------------------------------ *)

\* lines 82-95: look the model up; the coroutine then runs on into the
\* adapter without giving up the event loop
create_chat_completion(t, scenarios) ==
  /\ Serving
  /\ pc[t] = "idle"
  /\ running = 0
  /\ \E sc \in scenarios :
       LET req == sc.request
           provider_name == MapGet(MODEL_PROVIDER_MAP, req.model)
       IN  /\ request' = [request EXCEPT ![t] = req]
           /\ upstream' = [upstream EXCEPT ![t] = sc.upstream]
           /\ IF req.model \notin Range(ALL_MODELS)
              THEN /\ response' = [response EXCEPT ![t] =
                         HTTPException(400, NotFoundDetail(req.model, ALL_MODELS))]
                   /\ pc' = [pc EXCEPT ![t] = "done"]
                   /\ running' = 0
              ELSE IF Falsy(provider_name) \/ provider_name[1] \notin ProviderKeys(PROVIDERS)
                   THEN /\ response' = [response EXCEPT ![t] =
                              HTTPException(500, NoProviderDetail(req.model))]
                        /\ pc' = [pc EXCEPT ![t] = "done"]
                        /\ running' = 0
                   ELSE /\ pc' = [pc EXCEPT ![t] = provider_name[1]]
                        /\ running' = t
                        /\ UNCHANGED response
  /\ UNCHANGED <<registry, sys_path, invoked, ret, emitter, out, failover, extractor>>

\* the handler without its try/except in stream mode: the stream is opened
\* whatever the adapter ended with, and the error text is streamed
FinishStreamsErrors(t, r) ==
  /\ ret' = [ret EXCEPT ![t] = r]
  /\ running' = 0
  /\ IF request[t].stream
     THEN /\ response' = [response EXCEPT ![t] = StreamingResponse]
          /\ emitter' = [emitter EXCEPT ![t] =
                [content |-> IF r.state = "raised" THEN r.msg
                             ELSE r.value[1].choices[1].message.content,
                 model |-> request[t].model, i |-> 0]]
          /\ pc' = [pc EXCEPT ![t] = "stream"]
     ELSE /\ response' = [response EXCEPT ![t] =
                IF r.state = "raised" THEN HTTPException(500, ErrorDetail(r.msg))
                ELSE JSONResponse(r.value[1])]
          /\ pc' = [pc EXCEPT ![t] = "done"]
          /\ UNCHANGED emitter

\* lines 97-114: what the handler does with the adapter's outcome r
Finish(t, r) ==
  /\ ret' = [ret EXCEPT ![t] = r]
  /\ running' = 0
  /\ IF r.state = "raised"
     THEN /\ response' = [response EXCEPT ![t] = HTTPException(500, ErrorDetail(r.msg))]
          /\ pc' = [pc EXCEPT ![t] = "done"]
          /\ UNCHANGED emitter
     ELSE IF request[t].stream
          THEN /\ response' = [response EXCEPT ![t] = StreamingResponse]
               /\ emitter' = [emitter EXCEPT ![t] =
                     [content |-> r.value[1].choices[1].message.content,
                      model |-> request[t].model, i |-> 0]]
               /\ pc' = [pc EXCEPT ![t] = "stream"]
          ELSE /\ response' = [response EXCEPT ![t] = JSONResponse(r.value[1])]
               /\ pc' = [pc EXCEPT ![t] = "done"]
               /\ UNCHANGED emitter

(* ------------------------------------------------------------------ *)
(* Re-streaming emitter: stream_chat_completion, main.py lines 116-160   *)
(* ------------------------------------------------------------------ *)

chunk_size == 3

\* one "data: {json}\n\n" frame; delta is a list of key/value pairs
ChunkFrame(model, delta, finish_reason) ==
  [data |-> "chat.completion.chunk", model |-> model, delta |-> delta,
   finish_reason |-> finish_reason]

\* the "data: [DONE]\n\n" frame
DoneFrame == [data |-> "[DONE]", model |-> "", delta |-> <<>>, finish_reason |-> "null"]

\* every chunk space-prefixed, the first one too
ChunkContentAlwaysSpace(words, i) ==
  <<" ">> \o Join(<<" ">>, Slice(words, i, i + 3))

\* no chunk space-prefixed: the windows are glued together
ChunkContentNoSpace(words, i) ==
  Join(<<" ">>, Slice(words, i, i + chunk_size))

\* lines 126-127
ChunkContent(words, i) ==
  LET chunk_words == Slice(words, i, i + chunk_size)
  IN  IF i > 0 THEN <<" ">> \o Join(<<" ">>, chunk_words)
      ELSE Join(<<" ">>, chunk_words)

\* the generator is called directly with a content and a model
stream_chat_completion(t, contents, model) ==
  /\ pc[t] = "idle"
  /\ running = 0
  /\ \E content \in contents :
       emitter' = [emitter EXCEPT ![t] = [content |-> content, model |-> model, i |-> 0]]
  /\ pc' = [pc EXCEPT ![t] = "stream"]
  /\ UNCHANGED <<registry, sys_path, running, request, upstream, invoked, ret,
                 response, out, failover, extractor>>

\* one turn of the loop: yield the chunk, then await asyncio.sleep(0.05)
EmitChunk(t) ==
  /\ pc[t] = "stream"
  /\ running = 0
  /\ LET words == Split(emitter[t].content)
         i == emitter[t].i
     IN  /\ i < Len(words)
         /\ out' = [out EXCEPT ![t] = Append(@,
               ChunkFrame(emitter[t].model,
                          << <<"content", ChunkContent(words, i)>> >>, "null"))]
         /\ emitter' = [emitter EXCEPT ![t].i = i + chunk_size]
  /\ UNCHANGED <<registry, sys_path, running, pc, request, upstream, invoked, ret,
                 response, failover, extractor>>

\* the final chunk with finish_reason left at None
EmitStopNoReason(t) ==
  /\ pc[t] = "stream"
  /\ running = 0
  /\ emitter[t].i >= Len(Split(emitter[t].content))
  /\ out' = [out EXCEPT ![t] = Append(@,
        [data |-> "chat.completion.chunk", model |-> emitter[t].model, delta |-> <<>>,
         finish_reason |-> "null"])]
  /\ pc' = [pc EXCEPT ![t] = "sentinel"]
  /\ UNCHANGED <<registry, sys_path, running, request, upstream, invoked, ret,
                 response, emitter, failover, extractor>>

\* after the loop: yield the final chunk
EmitStop(t) ==
  /\ pc[t] = "stream"
  /\ running = 0
  /\ emitter[t].i >= Len(Split(emitter[t].content))
  /\ out' = [out EXCEPT ![t] = Append(@, ChunkFrame(emitter[t].model, <<>>, "stop"))]
  /\ pc' = [pc EXCEPT ![t] = "sentinel"]
  /\ UNCHANGED <<registry, sys_path, running, request, upstream, invoked, ret,
                 response, emitter, failover, extractor>>

\* yield "data: [DONE]\n\n"; the generator is exhausted
EmitSentinel(t) ==
  /\ pc[t] = "sentinel"
  /\ running = 0
  /\ out' = [out EXCEPT ![t] = Append(@, DoneFrame)]
  /\ pc' = [pc EXCEPT ![t] = "done"]
  /\ UNCHANGED <<registry, sys_path, running, request, upstream, invoked, ret,
                 response, emitter, failover, extractor>>

(* ------------------------------------------------------------------ *)
(* Adapter A: TypefullyProvider, providers/typefully.py                  *)
(* ------------------------------------------------------------------ *)

QUOTE == "\""

BACKSLASH == "\\"

\* positions p, q of re.search(r'0:"(.*?)"', chunk): the leftmost p where the
\* token opens and a quote closes it on the same line, and the nearest such q
TokenEnds(chunk, p) ==
  {q \in (p + 3)..Len(chunk) :
     /\ chunk[q] = QUOTE
     /\ \A k \in (p + 3)..(q - 1) : chunk[k] # "\n"}

TokenStarts(chunk) ==
  {p \in 1..Len(chunk) : MatchAt(chunk, p, <<"0", ":", QUOTE>>) /\ TokenEnds(chunk, p) # {}}

Least(S) == CHOOSE x \in S : \A y \in S : x <= y

\* the four replace calls of line 51, in the order they are chained
Unescape(content) ==
  Replace(Replace(Replace(Replace(content,
    <<BACKSLASH, "n">>, <<"\n">>),
    <<BACKSLASH, "t">>, <<"\t">>),
    <<BACKSLASH, QUOTE>>, <<QUOTE>>),
    <<BACKSLASH, BACKSLASH>>, <<BACKSLASH>>)

_typefully_extractor(chunk) ==
  IF TokenStarts(chunk) = {} THEN <<>>
  ELSE LET p == Least(TokenStarts(chunk))
           q == Least(TokenEnds(chunk, p))
       IN  Unescape(SubSeq(chunk, p + 3, q - 1))

\* lines 110-114: for line in lines: if line.strip(): ... full_response += extracted
RECURSIVE TypefullyCollect(_)
TypefullyCollect(lines) ==
  IF lines = <<>> THEN <<>>
  ELSE (IF Strip(Head(lines)) # <<>> THEN _typefully_extractor(Head(lines)) ELSE <<>>)
       \o TypefullyCollect(Tail(lines))

\* lines 117-118
TypefullyCleanup(full_response) ==
  IF full_response # <<>>
  THEN Replace(Replace(full_response, <<BACKSLASH, "n">>, <<"\n">>),
               <<BACKSLASH, "n", BACKSLASH, "n">>, <<"\n", "\n">>)
  ELSE full_response

\* lines 100-145, from the upstream's answer to what chat_completion ends with
TypefullyOutcome(req, up) ==
  IF up.kind = "error"
  THEN Raised(<<"Typefully chat failed: ">> \o up.exc)
  ELSE IF up.status_code # 200
       THEN Raised(<<"Typefully chat failed: ", "Typefully API error: ",
                     ToString(up.status_code), " - ">> \o up.text)
       ELSE LET full_response == TypefullyCleanup(TypefullyCollect(SplitLines(up.text)))
                prompt_tokens == WordCount(req.messages)
                completion_tokens ==
                  IF full_response # <<>> THEN Len(Split(full_response)) ELSE 0
            IN  Returned(ChatCompletionResponse(req.model,
                  Choice(full_response, "stop"),
                  Usage(prompt_tokens, completion_tokens,
                        prompt_tokens + completion_tokens)))

\* lines 60-98: build the payload, then await client.post(...)
TypefullyPost(t) ==
  /\ pc[t] = "typefully"
  /\ running = t
  /\ invoked' = [invoked EXCEPT ![t] = Append(@, "typefully")]
  /\ pc' = [pc EXCEPT ![t] = "typefully.post"]
  /\ running' = 0
  /\ UNCHANGED <<registry, sys_path, request, upstream, ret, response, emitter, out,
                 failover, extractor>>

\* the post completes, fails or times out; the coroutine runs to its end
TypefullyReply(t) ==
  /\ pc[t] = "typefully.post"
  /\ running = 0
  /\ Finish(t, TypefullyOutcome(request[t], upstream[t]))
  /\ UNCHANGED <<registry, sys_path, request, upstream, invoked, out, failover, extractor>>

(* ------------------------------------------------------------------ *)
(* CloudflareProvider, providers/cloudflare.py                           *)
(* ------------------------------------------------------------------ *)

\* re.search(r'0:"(.*?)"(?=,|$)', chunk): the closing quote is followed by a
\* comma or ends the chunk ($ also matches before a final newline)
CfTokenEnds(chunk, p) ==
  {q \in TokenEnds(chunk, p) :
     \/ q = Len(chunk)
     \/ chunk[q + 1] = ","
     \/ (q + 1 = Len(chunk) /\ chunk[q + 1] = "\n")}

CfTokenStarts(chunk) ==
  {p \in 1..Len(chunk) :
     MatchAt(chunk, p, <<"0", ":", QUOTE>>) /\ CfTokenEnds(chunk, p) # {}}

\* bytes.decode('unicode_escape') on the characters of the model: a backslash
\* joins with n, t, r, quote or backslash; before any other character of the
\* model's alphabets it stays; alone at the end it is a UnicodeDecodeError
RECURSIVE UnicodeEscapeFrom(_, _)
UnicodeEscapeFrom(s, i) ==
  IF i > Len(s) THEN <<>>
  ELSE IF s[i] = BACKSLASH /\ i < Len(s)
       THEN (IF s[i + 1] = "n" THEN <<"\n">>
             ELSE IF s[i + 1] = "t" THEN <<"\t">>
             ELSE IF s[i + 1] = "r" THEN <<"\r">>
             ELSE IF s[i + 1] = QUOTE THEN <<QUOTE>>
             ELSE IF s[i + 1] = BACKSLASH THEN <<BACKSLASH>>
             ELSE <<BACKSLASH, s[i + 1]>>) \o UnicodeEscapeFrom(s, i + 2)
       ELSE <<s[i]>> \o UnicodeEscapeFrom(s, i + 1)

RECURSIVE DanglingBackslash(_, _)
DanglingBackslash(s, i) ==
  IF i > Len(s) THEN FALSE
  ELSE IF s[i] = BACKSLASH
       THEN IF i = Len(s) THEN TRUE ELSE DanglingBackslash(s, i + 2)
       ELSE DanglingBackslash(s, i + 1)

_cloudflare_extractor(chunk) ==
  IF CfTokenStarts(chunk) = {} THEN <<>>
  ELSE LET p == Least(CfTokenStarts(chunk))
           q == Least(CfTokenEnds(chunk, p))
           group == SubSeq(chunk, p + 3, q - 1)
       IN  IF DanglingBackslash(group, 1)
           THEN Unescape(group)
           ELSE Replace(Replace(UnicodeEscapeFrom(group, 1),
                  <<BACKSLASH, BACKSLASH>>, <<BACKSLASH>>),
                  <<BACKSLASH, QUOTE>>, <<QUOTE>>)

\* lines 224-231 (the processing written in this file; with webscout installed
\* its sanitize_stream feeds the same extractor)
RECURSIVE CloudflareCollect(_)
CloudflareCollect(lines) ==
  IF lines = <<>> THEN <<>>
  ELSE (IF Strip(Head(lines)) # <<>> THEN _cloudflare_extractor(Head(lines)) ELSE <<>>)
       \o CloudflareCollect(Tail(lines))

\* "No response generated"
Placeholder == <<"No", " ", "response", " ", "generated">>

\* lines 233-235
CloudflareEnsure(full_response) ==
  IF full_response = <<>> THEN Placeholder ELSE full_response

\* lines 188-264
CloudflareOutcome(req, up) ==
  IF up.kind = "error"
  THEN IF up.curl
       THEN Raised(<<"Cloudflare request failed (CurlError): ">> \o up.exc)
       ELSE Raised(<<"Cloudflare chat failed: ">> \o up.exc)
  ELSE LET full_response == CloudflareEnsure(CloudflareCollect(SplitLines(up.text)))
           prompt_tokens == WordCount(req.messages)
           completion_tokens ==
             IF full_response # <<>> THEN Len(Split(full_response)) ELSE 0
       IN  Returned(ChatCompletionResponse(req.model,
             Choice(full_response, "stop"),
             Usage(prompt_tokens, completion_tokens,
                   prompt_tokens + completion_tokens)))

\* lines 149-201: session.post is a blocking call, the event loop stays taken
CloudflarePost(t) ==
  /\ pc[t] = "cloudflare"
  /\ running = t
  /\ invoked' = [invoked EXCEPT ![t] = Append(@, "cloudflare")]
  /\ pc' = [pc EXCEPT ![t] = "cloudflare.post"]
  /\ UNCHANGED <<registry, sys_path, running, request, upstream, ret, response,
                 emitter, out, failover, extractor>>

CloudflareReply(t) ==
  /\ pc[t] = "cloudflare.post"
  /\ running = t
  /\ Finish(t, CloudflareOutcome(request[t], upstream[t]))
  /\ UNCHANGED <<registry, sys_path, request, upstream, invoked, out, failover, extractor>>

(* ------------------------------------------------------------------ *)
(* Adapter C: MinimaxProvider, providers/minimax.py                      *)
(* ------------------------------------------------------------------ *)

\* lines 100-127 (the processing written in this file; with webscout installed
\* its sanitize_stream parses the same lines) over the lines of the body, each
\* already classified: a
\* "data: " line carrying a JSON delta, the "[DONE]" line, a "data: " line
\* that is not JSON, or any other line; returns <<full_response, full_thinking>>
RECURSIVE MinimaxCollect(_, _, _)
MinimaxCollect(lines, full_response, full_thinking) ==
  IF lines = <<>> THEN <<full_response, full_thinking>>
  ELSE LET line == Head(lines)
       IN  IF line.type = "done" THEN <<full_response, full_thinking>>
           ELSE IF line.type = "delta"
                THEN MinimaxCollect(Tail(lines), full_response \o line.content,
                                    full_thinking \o line.reasoning_content)
                ELSE MinimaxCollect(Tail(lines), full_response, full_thinking)

\* lines 139-141
MinimaxEnsure(full_response) ==
  IF full_response = <<>> THEN Placeholder ELSE full_response

\* the block written whether or not any reasoning was collected
MinimaxMessageAlwaysBlock(full_response, full_thinking) ==
  <<"<thinking>", "\n">> \o full_thinking \o <<"\n", "</thinking>", "\n", "\n">>
  \o full_response

\* lines 144-147
MinimaxMessage(full_response, full_thinking) ==
  IF full_thinking # <<>>
  THEN <<"<thinking>", "\n">> \o full_thinking \o <<"\n", "</thinking>", "\n", "\n">>
       \o full_response
  ELSE full_response

\* lines 51-168
MinimaxOutcome(req, up) ==
  IF up.kind = "timeout" THEN Raised(<<"MiniMax API timed out">>)
  ELSE IF up.kind = "error"
  THEN Raised(<<"MiniMax API request failed: ">> \o up.exc)
  ELSE IF up.status_code # 200
  THEN Raised(<<"Failed to process MiniMax response: ", "MiniMax API error: ",
                ToString(up.status_code)>>)
  ELSE LET got == MinimaxCollect(up.lines, <<>>, <<>>)
           prompt_tokens == WordCount(req.messages)
           completion_tokens == IF got[1] # <<>> THEN Len(Split(got[1])) ELSE 0
           full_response == MinimaxEnsure(got[1])
       IN  Returned(ChatCompletionResponse(req.model,
             Choice(MinimaxMessage(full_response, got[2]), "stop"),
             Usage(prompt_tokens, completion_tokens,
                   prompt_tokens + completion_tokens)))

\* lines 40-59: requests.post is a blocking call
MinimaxPost(t) ==
  /\ pc[t] = "minimax"
  /\ running = t
  /\ invoked' = [invoked EXCEPT ![t] = Append(@, "minimax")]
  /\ pc' = [pc EXCEPT ![t] = "minimax.post"]
  /\ UNCHANGED <<registry, sys_path, running, request, upstream, ret, response,
                 emitter, out, failover, extractor>>

MinimaxReply(t) ==
  /\ pc[t] = "minimax.post"
  /\ running = t
  /\ Finish(t, MinimaxOutcome(request[t], upstream[t]))
  /\ UNCHANGED <<registry, sys_path, request, upstream, invoked, out, failover, extractor>>

(* ------------------------------------------------------------------ *)
(* Adapter B: FlowithProvider, providers/flowith.py                      *)
(* ------------------------------------------------------------------ *)

\* lines 38-45: the last user message of the request, "" when there is none
RECURSIVE UserMessage(_, _)
UserMessage(messages, user_message) ==
  IF messages = <<>> THEN user_message
  ELSE UserMessage(Tail(messages),
         IF Head(messages).role = "user" THEN Head(messages).content ELSE user_message)

\* the except clause of line 92
FlowithError(msg) == Raised(<<"Flowith provider error: ">> \o msg)

\* lines 57-90: ai.chat(...) of the Flowith client, then the response
FlowithOutcome(req, up) ==
  IF up.kind = "error" THEN FlowithError(up.exc)
  ELSE LET full_response == up.text
           prompt_tokens == WordCount(req.messages)
           completion_tokens ==
             IF full_response # <<>> THEN Len(Split(full_response)) ELSE 0
       IN  Returned(ChatCompletionResponse(req.model,
             Choice(full_response, "stop"),
             Usage(prompt_tokens, completion_tokens,
                   prompt_tokens + completion_tokens)))

\* lines 32-55: sys.path.append, the import of the client class, the user
\* message check, the client; a request without user text fails before any
\* client exists
FlowithChat(t) ==
  /\ pc[t] = "flowith"
  /\ running = t
  /\ invoked' = [invoked EXCEPT ![t] = Append(@, "flowith")]
  /\ sys_path' = sys_path + 1
  /\ IF upstream[t].kind = "import_error"
     THEN Finish(t, FlowithError(upstream[t].exc))
     ELSE IF UserMessage(request[t].messages, <<>>) = <<>>
     THEN Finish(t, FlowithError(<<"No user message found">>))
     ELSE /\ pc' = [pc EXCEPT ![t] = "flowith.chat"]
          /\ UNCHANGED <<running, ret, response, emitter>>
  /\ UNCHANGED <<registry, request, upstream, out, failover, extractor>>

\* ai.chat is a blocking call
FlowithReply(t) ==
  /\ pc[t] = "flowith.chat"
  /\ running = t
  /\ Finish(t, FlowithOutcome(request[t], upstream[t]))
  /\ UNCHANGED <<registry, sys_path, request, upstream, invoked, out, failover, extractor>>

(* ------------------------------------------------------------------ *)
(* Adapter D: OIVSCodeProvider, providers/oivscode.py                    *)
(* ------------------------------------------------------------------ *)

\* self.api_endpoints, by host name
api_endpoints ==
  <<"oi-vscode-server", "oi-vscode-server-2", "oi-vscode-server-5",
    "oi-vscode-server-0501">>

\* random.shuffle(endpoints): every order of the copy
Shuffles(endpoints) ==
  LET n == Len(endpoints)
      perms == {p \in [1..n -> 1..n] : \A a, b \in 1..n : p[a] = p[b] => a = b}
  IN  {[k \in 1..n |-> endpoints[p[k]]] : p \in perms}

\* dict.get(key, default) on an optional entry
Get(opt, default) == IF opt = <<>> THEN default ELSE opt[1]

\* lines 90-120 for one answer: the response when the mirror gave a usable
\* one, nothing when the loop goes on (other status, no choices)
MirrorResult(req, answer) ==
  IF answer.status_code = 200 /\ answer.choices # <<>>
  THEN LET choice_data == answer.choices[1]
           message_content == Get(choice_data.content, <<>>)
           usage == Usage(Get(answer.usage.prompt_tokens, 0),
                          Get(answer.usage.completion_tokens, 0),
                          Get(answer.usage.total_tokens, 0))
       IN  <<ChatCompletionResponse(req.model,
               Choice(message_content, Get(choice_data.finish_reason, "stop")),
               usage)>>
  ELSE <<>>

\* the first failing mirror ends the call
AfterReplyNoFailover(req, fo, reply) ==
  IF reply.kind = "http" /\ reply.status_code = 200 /\ reply.choices # <<>>
  THEN [failover |-> fo,
        ret |-> Returned([object |-> "chat.completion", model |-> req.model,
                          choices |-> <<[index |-> 0,
                             message |-> [role |-> "assistant",
                                          content |-> IF reply.choices[1].content = <<>>
                                                      THEN <<>>
                                                      ELSE reply.choices[1].content[1]],
                             finish_reason |-> IF reply.choices[1].finish_reason = <<>>
                                               THEN "stop"
                                               ELSE reply.choices[1].finish_reason[1]]>>,
                          usage |-> [prompt_tokens |->
                                       IF reply.usage.prompt_tokens = <<>> THEN 0
                                       ELSE reply.usage.prompt_tokens[1],
                                     completion_tokens |->
                                       IF reply.usage.completion_tokens = <<>> THEN 0
                                       ELSE reply.usage.completion_tokens[1],
                                     total_tokens |->
                                       IF reply.usage.total_tokens = <<>> THEN 0
                                       ELSE reply.usage.total_tokens[1]]])]
  ELSE [failover |-> fo, ret |-> Raised(<<"All OI-VSCode API endpoints failed">>)]

\* the loop stops one mirror short
AfterReplyOffByOne(req, fo, reply) ==
  IF reply.kind = "http" /\ reply.status_code = 200 /\ reply.choices # <<>>
  THEN AfterReplyNoFailover(req, fo, reply)
  ELSE IF fo.idx < Len(fo.endpoints) - 1
       THEN [failover |-> [fo EXCEPT !.idx = fo.idx + 1,
                                     !.contacted = Append(@, fo.endpoints[fo.idx + 1])],
             ret |-> NoReturn]
       ELSE [failover |-> fo, ret |-> Raised(<<"All OI-VSCode API endpoints failed">>)]

\* a mirror that gave no usable answer is posted to again
AfterReplyRetriesSameMirror(req, fo, reply) ==
  IF reply.kind = "http" /\ reply.status_code = 200 /\ reply.choices # <<>>
  THEN AfterReplyNoFailover(req, fo, reply)
  ELSE [failover |-> fo, ret |-> NoReturn]

\* lines 80-128: the loop after the post to endpoints[idx] ended with reply;
\* gives the locals and the outcome, the next post being issued at once
AfterReply(req, fo, reply) ==
  LET result == IF reply.kind = "http" THEN MirrorResult(req, reply) ELSE <<>>
  IN  IF result # <<>>
      THEN [failover |-> fo, ret |-> Returned(result[1])]
      ELSE IF fo.idx < Len(fo.endpoints)
           THEN [failover |-> [fo EXCEPT !.idx = fo.idx + 1,
                                         !.contacted = Append(@, fo.endpoints[fo.idx + 1])],
                 ret |-> NoReturn]
           ELSE [failover |-> fo, ret |-> Raised(<<"All OI-VSCode API endpoints failed">>)]

\* lines 60-88, called directly: shuffle a copy of the mirrors, post to the first
oivscode_chat_completion(t, scenarios) ==
  /\ pc[t] = "idle"
  /\ running = 0
  /\ \E sc \in scenarios, endpoints \in Shuffles(api_endpoints) :
       /\ request' = [request EXCEPT ![t] = sc.request]
       /\ upstream' = [upstream EXCEPT ![t] = sc.upstream]
       /\ failover' = [failover EXCEPT ![t] =
             [endpoints |-> endpoints, idx |-> 1, contacted |-> <<endpoints[1]>>]]
  /\ invoked' = [invoked EXCEPT ![t] = Append(@, "oivscode")]
  /\ pc' = [pc EXCEPT ![t] = "oivscode.post"]
  /\ UNCHANGED <<registry, sys_path, running, ret, response, emitter, out, extractor>>

\* await client.post(...) ends: a response, a timeout or another exception
OIVSCodeReply(t) ==
  /\ pc[t] = "oivscode.post"
  /\ running = 0
  /\ LET endpoint == failover[t].endpoints[failover[t].idx]
         after == AfterReply(request[t], failover[t], upstream[t].mirrors[endpoint])
     IN  /\ failover' = [failover EXCEPT ![t] = after.failover]
         /\ ret' = [ret EXCEPT ![t] = after.ret]
         /\ pc' = [pc EXCEPT ![t] = IF after.ret.state = "none" THEN "oivscode.post"
                                    ELSE "done"]
  /\ UNCHANGED <<registry, sys_path, running, request, upstream, invoked, response,
                 emitter, out, extractor>>

(* ------------------------------------------------------------------ *)
(* Requests and upstream answers the model is run on                     *)
(* ------------------------------------------------------------------ *)

\* one model of each provider class and one no class declares
RequestModels ==
  {"gpt-4.1", "phi-2", "claude-3.5-haiku", "minimax-reasoning-01", "gpt-4",
   "not-a-model"}

SampleMessages ==
  { << Message("user", <<"h", "i", " ", "y", "o", "u">>) >>,
    << Message("system", <<"b", "e", " ", "b", "r", "i", "e", "f">>),
       Message("user", <<"h", "i">>) >>,
    << Message("system", <<"b", "e">>) >>,
    << Message("user", <<"h", "i">>), Message("assistant", <<"y", "o">>),
       Message("user", <<"g", "o", " ", "o", "n">>) >> }

Requests ==
  {[model |-> m, messages |-> ms, stream |-> s] :
     m \in RequestModels, ms \in SampleMessages, s \in BOOLEAN}

\* bodies in the 0:"..." token grammar
TokenBodies ==
  { <<"0", ":", QUOTE, "h", "i", QUOTE>>,
    <<"0", ":", QUOTE, "h", "i", " ", QUOTE, "\n", "0", ":", QUOTE, "y", "o", QUOTE, "\n">>,
    <<"e", ":", "{", "}">>,
    <<>> }

UpstreamTypefully ==
  {[kind |-> "error", exc |-> <<"ReadTimeout">>],
   [kind |-> "http", status_code |-> 500, text |-> <<"o", "o", "p", "s">>]}
  \cup {[kind |-> "http", status_code |-> 200, text |-> b] : b \in TokenBodies}

UpstreamCloudflare ==
  {[kind |-> "error", curl |-> c, exc |-> <<"HTTP Error 500">>] : c \in BOOLEAN}
  \cup {[kind |-> "http", status_code |-> 200, text |-> b] : b \in TokenBodies}

Delta(content, reasoning_content) ==
  [type |-> "delta", content |-> content, reasoning_content |-> reasoning_content]

SSEBodies ==
  { << Delta(<<"h", "i">>, <<>>), Delta(<<" ", "y", "o">>, <<>>), [type |-> "done"] >>,
    << Delta(<<>>, <<"h", "m">>), Delta(<<"o", "k">>, <<>>), [type |-> "done"] >>,
    << Delta(<<>>, <<"h", "m">>), [type |-> "malformed"], [type |-> "done"],
       Delta(<<"l", "a", "t", "e">>, <<>>) >>,
    << Delta(<<>>, <<"s", "o">>), Delta(<<"o", "k">>, <<" ", "i", "t">>),
       [type |-> "done"], Delta(<<>>, <<"n", "o">>) >>,
    << [type |-> "other"] >> }

UpstreamMinimax ==
  {[kind |-> "timeout"],
   [kind |-> "error", exc |-> <<"ConnectionError">>],
   [kind |-> "http", status_code |-> 429, lines |-> <<>>]}
  \cup {[kind |-> "http", status_code |-> 200, lines |-> b] : b \in SSEBodies}

UpstreamFlowith ==
  {[kind |-> "import_error", exc |-> <<"cannot import name 'Flowith'">>],
   [kind |-> "error", exc |-> <<"ConnectionError">>],
   [kind |-> "text", text |-> <<"h", "i", " ", "y", "o">>]}

\* what one mirror answers: a timeout, another exception, a status other than
\* 200, a 200 without choices, a full answer, an answer cut at the token limit
\* (finish_reason "length"), an answer whose usage has no total_tokens, an
\* answer with only a message
MirrorKinds ==
  {"timeout", "error", "status", "nochoices", "full", "length", "nototal", "bare"}

NoUsage == [prompt_tokens |-> <<>>, completion_tokens |-> <<>>, total_tokens |-> <<>>]

MirrorAnswer(endpoint, kind) ==
  IF kind = "timeout" THEN [kind |-> "timeout"]
  ELSE IF kind = "error" THEN [kind |-> "error"]
  ELSE IF kind = "status"
  THEN [kind |-> "http", status_code |-> 503, choices |-> <<>>, usage |-> NoUsage]
  ELSE IF kind = "nochoices"
  THEN [kind |-> "http", status_code |-> 200, choices |-> <<>>, usage |-> NoUsage]
  ELSE IF kind = "full"
  THEN [kind |-> "http", status_code |-> 200,
        choices |-> << [content |-> << <<"f", "r", "o", "m", " ", endpoint>> >>,
                        finish_reason |-> <<"stop">>] >>,
        usage |-> [prompt_tokens |-> <<2>>, completion_tokens |-> <<2>>,
                   total_tokens |-> <<4>>]]
  ELSE IF kind = "length"
  THEN [kind |-> "http", status_code |-> 200,
        choices |-> << [content |-> << <<"f", "r", "o", "m", " ", endpoint>> >>,
                        finish_reason |-> <<"length">>] >>,
        usage |-> [prompt_tokens |-> <<2>>, completion_tokens |-> <<2>>,
                   total_tokens |-> <<4>>]]
  ELSE IF kind = "nototal"
  THEN [kind |-> "http", status_code |-> 200,
        choices |-> << [content |-> << <<"f", "r", "o", "m", " ", endpoint>> >>,
                        finish_reason |-> <<"stop">>] >>,
        usage |-> [prompt_tokens |-> <<2>>, completion_tokens |-> <<2>>,
                   total_tokens |-> <<>>]]
  ELSE [kind |-> "http", status_code |-> 200,
        choices |-> << [content |-> <<>>, finish_reason |-> <<>>] >>,
        usage |-> NoUsage]

Endpoints == Range(api_endpoints)

MirrorWorlds ==
  {[kind |-> "mirrors", mirrors |-> [e \in Endpoints |-> MirrorAnswer(e, k[e])]] :
     k \in [Endpoints -> MirrorKinds]}

\* the worlds in which all mirrors behave alike
UniformMirrorWorlds ==
  {[kind |-> "mirrors", mirrors |-> [e \in Endpoints |-> MirrorAnswer(e, k)]] :
     k \in MirrorKinds}

\* the upstream behind the provider class that declares the model
UpstreamFor(model) ==
  IF model \in Range(FlowithModels) THEN UpstreamFlowith
  ELSE IF model \in Range(CloudflareModels) THEN UpstreamCloudflare
  ELSE IF model \in Range(TypefullyModels) THEN UpstreamTypefully
  ELSE IF model \in Range(MinimaxModels) THEN UpstreamMinimax
  ELSE IF model \in Range(OIVSCodeModels) THEN UniformMirrorWorlds
  ELSE {NoUpstream}

Scenarios ==
  UNION {{[request |-> r, upstream |-> u] : u \in UpstreamFor(r.model)} : r \in Requests}

(* ------------------------------------------------------------------ *)
(* The server: start-up, then one request through the dispatcher, over    *)
(* every sample request and upstream answer                              *)
(* ------------------------------------------------------------------ *)

Next ==
  \/ RegisterProvider
  \/ RemoveDuplicates
  \/ create_chat_completion(1, Scenarios)
  \/ TypefullyPost(1)
  \/ TypefullyReply(1)
  \/ CloudflarePost(1)
  \/ CloudflareReply(1)
  \/ MinimaxPost(1)
  \/ MinimaxReply(1)
  \/ FlowithChat(1)
  \/ FlowithReply(1)
  \/ EmitChunk(1)
  \/ EmitStop(1)
  \/ EmitSentinel(1)

Spec == Init /\ [][Next]_vars

(* ------------------------------------------------------------------ *)
(* The server with several requests in flight on the one event loop      *)
(* ------------------------------------------------------------------ *)

\* per registered provider class: an answer and a failure of its upstream
ConcurrentUpstreamFor(model) ==
  IF model \in Range(FlowithModels)
  THEN {[kind |-> "text", text |-> <<"h", "i", " ", "y", "o">>],
        [kind |-> "error", exc |-> <<"ConnectionError">>]}
  ELSE IF model \in Range(CloudflareModels)
  THEN {[kind |-> "http", status_code |-> 200, text |-> <<"0", ":", QUOTE, "h", "i", QUOTE>>],
        [kind |-> "error", curl |-> TRUE, exc |-> <<"HTTP Error 500">>]}
  ELSE IF model \in Range(TypefullyModels)
  THEN {[kind |-> "http", status_code |-> 200, text |-> <<"0", ":", QUOTE, "h", "i", QUOTE>>],
        [kind |-> "error", exc |-> <<"ReadTimeout">>]}
  ELSE {[kind |-> "http", status_code |-> 200,
         lines |-> << Delta(<<"h", "i">>, <<>>), [type |-> "done"] >>],
        [kind |-> "timeout"]}

ConcurrentRequests ==
  {[model |-> m, messages |-> << Message("user", <<"h", "i">>) >>, stream |-> s] :
     m \in {"gpt-4.1", "phi-2", "claude-3.5-haiku", "minimax-reasoning-01"},
     s \in BOOLEAN}

ConcurrentScenarios ==
  UNION {{[request |-> r, upstream |-> u] : u \in ConcurrentUpstreamFor(r.model)} :
           r \in ConcurrentRequests}

\* what task t can do next
Step(t) ==
  \/ create_chat_completion(t, ConcurrentScenarios)
  \/ TypefullyPost(t)
  \/ TypefullyReply(t)
  \/ CloudflarePost(t)
  \/ CloudflareReply(t)
  \/ MinimaxPost(t)
  \/ MinimaxReply(t)
  \/ FlowithChat(t)
  \/ FlowithReply(t)
  \/ EmitChunk(t)
  \/ EmitStop(t)
  \/ EmitSentinel(t)

NextConcurrent ==
  \/ RegisterProvider
  \/ RemoveDuplicates
  \/ \E t \in Tasks : Step(t)

SpecConcurrent == Init /\ [][NextConcurrent]_vars

(* ------------------------------------------------------------------ *)
(* The registration loop on arbitrary adapters                           *)
(* ------------------------------------------------------------------ *)

AdapterNames == <<"flowith", "cloudflare", "typefully", "minimax", "oivscode">>

SampleModels == {"gpt-4.1", "phi-2"}

ModelLists == UNION {[1..n -> SampleModels] : n \in 0..MaxModels}

InitRegistry ==
  /\ PROVIDERS \in
       {[k \in 1..NumAdapters |-> [name |-> AdapterNames[k], models |-> ms[k]]] :
          ms \in [1..NumAdapters -> ModelLists]}
  /\ ALL_MODELS = <<>>
  /\ MODEL_PROVIDER_MAP = <<>>
  /\ boot = 1
  /\ InitTasks

RegistryScenarios ==
  {[request |-> [model |-> m, messages |-> <<>>, stream |-> s], upstream |-> NoUpstream] :
     m \in SampleModels \cup {"not-a-model"}, s \in BOOLEAN}

NextRegistry ==
  \/ RegisterProvider
  \/ RemoveDuplicates
  \/ create_chat_completion(1, RegistryScenarios)

SpecRegistry == InitRegistry /\ [][NextRegistry]_vars

(* ------------------------------------------------------------------ *)
(* Adapter D called on its own                                           *)
(* ------------------------------------------------------------------ *)

FailoverScenarios ==
  {[request |-> [model |-> "gpt-4", messages |-> ms, stream |-> FALSE], upstream |-> w] :
     ms \in {<< Message("user", <<"h", "i">>) >>}, w \in MirrorWorlds}

NextFailover ==
  \/ oivscode_chat_completion(1, FailoverScenarios)
  \/ OIVSCodeReply(1)

SpecFailover == Init /\ [][NextFailover]_vars

(* ------------------------------------------------------------------ *)
(* The emitter called on its own                                         *)
(* ------------------------------------------------------------------ *)

Alphabet == {"a", "b", " ", "\n"}

Texts(n) == UNION {[1..k -> Alphabet] : k \in 0..n}

NextEmitter ==
  \/ stream_chat_completion(1, Texts(MaxLen), "phi-2")
  \/ EmitChunk(1)
  \/ EmitStop(1)
  \/ EmitSentinel(1)

SpecEmitter == Init /\ [][NextEmitter]_vars


(* ------------------------------------------------------------------ *)
(* The extractors called on their own                                    *)
(* ------------------------------------------------------------------ *)

\* longest text put into a token, and longest content streamed directly in
\* the specification with fairness
MaxText == 3

PlainAlphabet == {"h", "n", ",", QUOTE, BACKSLASH, "\n"}

PlainTexts == UNION {[1..k -> PlainAlphabet] : k \in 0..MaxText}

\* the escaped form of a text, as the upstream writes it into a token
EscapeChar(c) ==
  IF c = "\n" THEN <<BACKSLASH, "n">>
  ELSE IF c = "\t" THEN <<BACKSLASH, "t">>
  ELSE IF c = QUOTE THEN <<BACKSLASH, QUOTE>>
  ELSE IF c = BACKSLASH THEN <<BACKSLASH, BACKSLASH>>
  ELSE <<c>>

Escape(text) == Concat([k \in 1..Len(text) |-> EscapeChar(text[k])])

\* the line 0:"<escaped text>"
TokenLine(text) == <<"0", ":", QUOTE>> \o Escape(text) \o <<QUOTE>>

\* chunks without the pattern
PatternFreeChunks ==
  { <<>>, <<"h">>, <<"e", ":", "{", "}">>, <<"0", ":", "h">>, <<"0", ":", QUOTE, "h">> }

\* the chunks the extractors are called with: text is the text a token was
\* made from, absent for a chunk without the pattern
ExtractorInputs ==
  {[text |-> <<x>>, chunk |-> TokenLine(x), called |-> "", value |-> <<>>] : x \in PlainTexts}
  \cup {[text |-> <<>>, chunk |-> c, called |-> "", value |-> <<>>] : c \in PatternFreeChunks}

InitExtractor ==
  /\ PROVIDERS = ActualProviders
  /\ ALL_MODELS = <<>>
  /\ MODEL_PROVIDER_MAP = <<>>
  /\ boot = 1
  /\ sys_path = 0
  /\ running = 0
  /\ pc = [t \in Tasks |-> "idle"]
  /\ request = [t \in Tasks |-> NoRequest]
  /\ upstream = [t \in Tasks |-> NoUpstream]
  /\ invoked = [t \in Tasks |-> <<>>]
  /\ ret = [t \in Tasks |-> NoReturn]
  /\ response = [t \in Tasks |-> NoResponse]
  /\ emitter = [t \in Tasks |-> NoEmitter]
  /\ out = [t \in Tasks |-> <<>>]
  /\ failover = [t \in Tasks |-> NoFailover]
  /\ \E x \in ExtractorInputs : extractor = [t \in Tasks |-> IF t = 1 THEN x ELSE NoExtractor]

\* self._typefully_extractor(chunk)
TypefullyExtract(t) ==
  /\ extractor[t].called = ""
  /\ extractor[t] # NoExtractor
  /\ extractor' = [extractor EXCEPT ![t].called = "_typefully_extractor",
                                    ![t].value = _typefully_extractor(extractor[t].chunk)]
  /\ UNCHANGED <<registry, sys_path, running, pc, request, upstream, invoked, ret,
                 response, emitter, out, failover>>

\* self._cloudflare_extractor(chunk)
CloudflareExtract(t) ==
  /\ extractor[t].called = ""
  /\ extractor[t] # NoExtractor
  /\ extractor' = [extractor EXCEPT ![t].called = "_cloudflare_extractor",
                                    ![t].value = _cloudflare_extractor(extractor[t].chunk)]
  /\ UNCHANGED <<registry, sys_path, running, pc, request, upstream, invoked, ret,
                 response, emitter, out, failover>>

NextExtractor ==
  \/ TypefullyExtract(1)
  \/ CloudflareExtract(1)

SpecExtractor == InitExtractor /\ [][NextExtractor]_vars

(* ------------------------------------------------------------------ *)
(* Every entry point, with the scheduling the event loop gives           *)
(* ------------------------------------------------------------------ *)

\* the steps of task t that follow once a call has been made: the adapter
\* running on, an upstream call ending, the emitter going on after its sleep;
\* the replies parsed by the token extractors are listed apart
Runs(t) ==
  \/ TypefullyPost(t)
  \/ CloudflarePost(t)
  \/ MinimaxPost(t)
  \/ MinimaxReply(t)
  \/ FlowithChat(t)
  \/ FlowithReply(t)
  \/ OIVSCodeReply(t)
  \/ EmitChunk(t)
  \/ EmitStop(t)
  \/ EmitSentinel(t)

TokenReplies(t) ==
  \/ TypefullyReply(t)
  \/ CloudflareReply(t)

\* the task is not waiting for the answer to client.post of TypefullyProvider
\* or to session.post of CloudflareProvider
TokenCallEnded(t) == pc[t] \notin {"typefully.post", "cloudflare.post"}

\* a mirror times out, fails otherwise, answers with another status, or answers
LiveMirrorKinds == {"timeout", "error", "status", "full"}

LiveFailoverScenarios ==
  {[request |-> [model |-> "gpt-4", messages |-> << Message("user", <<"h", "i">>) >>,
                 stream |-> FALSE],
    upstream |-> [kind |-> "mirrors",
                  mirrors |-> [e \in Endpoints |-> MirrorAnswer(e, k[e])]]] :
     k \in [Endpoints -> LiveMirrorKinds]}

\* a request through the dispatcher, OIVSCodeProvider.chat_completion called
\* directly, or the emitter called directly, on the loaded module
NextLive ==
  \/ RegisterProvider
  \/ RemoveDuplicates
  \/ create_chat_completion(1, Scenarios)
  \/ Serving /\ oivscode_chat_completion(1, LiveFailoverScenarios)
  \/ Serving /\ stream_chat_completion(1, Texts(MaxText), "phi-2")
  \/ Runs(1)
  \/ TokenReplies(1)

\* the event loop resumes a coroutine that can run, and every upstream call
\* returns, fails or times out (timeouts of 30 s and 60 s are set on the
\* calls); for the two token replies this is written as "the task is again
\* and again not waiting there", which at a place only the reply leaves is
\* weak fairness of the reply
SpecLive ==
  /\ Init /\ [][NextLive]_vars
  /\ WF_vars(RegisterProvider \/ RemoveDuplicates)
  /\ WF_vars(Runs(1))
  /\ []<>TokenCallEnded(1)

(* ------------------------------------------------------------------ *)
(* Properties                                                            *)
(* ------------------------------------------------------------------ *)

\* strictly ascending in Python's string order
IsAscending(ids) == \A k \in 1..(Len(ids) - 1) : LexLess(ids[k], ids[k + 1])

\* C1: a request whose model is not in the registry's model set, streaming
\* or not, ends with HTTP 400; the detail names the model and lists every
\* registered id in ascending order, and no adapter was entered for it.
ModelNotFoundListsSortedModels ==
  \A t \in Tasks :
    (pc[t] # "idle" /\ request[t].model \notin Range(ALL_MODELS)) =>
      LET d == response[t].detail
      IN  /\ pc[t] = "done"
          /\ response[t].status = 400
          /\ response[t].body = <<>> /\ ~response[t].streaming
          /\ Len(d) >= 5
          /\ SubSeq(d, 1, 4) =
               <<"Model '", request[t].model, "' not found. Available models: ", "[">>
          /\ d[Len(d)] = "]"
          /\ IsAscending(SubSeq(d, 5, Len(d) - 1))
          /\ Range(SubSeq(d, 5, Len(d) - 1)) = Range(ALL_MODELS)
          /\ invoked[t] = <<>>
          /\ ret[t] = NoReturn
          /\ out[t] = <<>>

\* C1 witness: a streaming request for an unregistered model was refused
UnknownModelRefused ==
  \E t \in Tasks :
    /\ pc[t] = "done"
    /\ request[t].model = "not-a-model"
    /\ request[t].stream
    /\ response[t].status = 400
    /\ Len(response[t].detail) = 5 + 56

\* C2: whenever an adapter's chat_completion raised, in either mode, the
\* client got one HTTP 500 whose detail is "Error generating response: "
\* followed by the adapter's message, and no frame was streamed.
AdapterErrorWrappedAs500 ==
  \A t \in Tasks :
    ret[t].state = "raised" =>
      /\ pc[t] = "done"
      /\ response[t] =
           [status |-> 500, detail |-> <<"Error generating response: ">> \o ret[t].msg,
            body |-> <<>>, streaming |-> FALSE]
      /\ out[t] = <<>>

\* C2 witness: an adapter raised while serving a streaming request
AdapterRaisedInStreamMode ==
  \E t \in Tasks :
    /\ ret[t].state = "raised"
    /\ ret[t].msg # <<>>
    /\ request[t].stream
    /\ request[t].model \in Range(ALL_MODELS)
    /\ response[t].status = 500

\* a mirror's answer the adapter can use: status 200 with a choice in it
Succeeds(answer) ==
  answer.kind = "http" /\ answer.status_code = 200 /\ answer.choices # <<>>

\* positions in the shuffled order whose mirror would succeed
Good(t) ==
  {k \in 1..Len(failover[t].endpoints) :
     Succeeds(upstream[t].mirrors[failover[t].endpoints[k]])}

\* C3: when the call has ended and some mirror of the shuffled order
\* succeeds, the call returned the response built from the first such
\* mirror's answer, contacted exactly the mirrors up to it, and raised nothing.
FailoverReturnsFirstSuccess ==
  \A t \in Tasks :
    (pc[t] = "done" /\ failover[t].endpoints # <<>> /\ Good(t) # {}) =>
      LET k0 == Least(Good(t))
          answer == upstream[t].mirrors[failover[t].endpoints[k0]]
          given == answer.choices[1]
      IN  /\ ret[t].state = "returned"
          /\ ret[t].msg = <<>>
          /\ ret[t].value[1].model = request[t].model
          /\ Len(ret[t].value[1].choices) = 1
          /\ ret[t].value[1].choices[1].message.content =
               (IF given.content = <<>> THEN <<>> ELSE given.content[1])
          /\ ret[t].value[1].choices[1].finish_reason =
               (IF given.finish_reason = <<>> THEN "stop" ELSE given.finish_reason[1])
          /\ ret[t].value[1].usage.prompt_tokens =
               (IF answer.usage.prompt_tokens = <<>> THEN 0
                ELSE answer.usage.prompt_tokens[1])
          /\ failover[t].contacted = SubSeq(failover[t].endpoints, 1, k0)

\* C3 witness: a timeout, another exception and a non-200 status came first,
\* the mirror tried last answered, and its answer was returned
ThirdFailureThenSuccess ==
  \E t \in Tasks :
    /\ pc[t] = "done"
    /\ Len(failover[t].endpoints) = 4
    /\ upstream[t].mirrors[failover[t].endpoints[1]].kind = "timeout"
    /\ upstream[t].mirrors[failover[t].endpoints[2]].kind = "error"
    /\ upstream[t].mirrors[failover[t].endpoints[3]].kind = "http"
    /\ upstream[t].mirrors[failover[t].endpoints[3]].status_code = 503
    /\ Succeeds(upstream[t].mirrors[failover[t].endpoints[4]])
    /\ ret[t].state = "returned"
    /\ ret[t].value[1].choices[1].message.content =
         <<"f", "r", "o", "m", " ", failover[t].endpoints[4]>>

\* C4: the mirrors are contacted in the shuffled order, one per turn and none
\* twice; "All OI-VSCode API endpoints failed" is raised only when every
\* configured mirror has been contacted and none of them succeeded.
AllEndpointsFailedOnlyAfterAll ==
  \A t \in Tasks :
    /\ failover[t].contacted = SubSeq(failover[t].endpoints, 1, failover[t].idx)
    /\ \A a, b \in 1..Len(failover[t].contacted) :
         failover[t].contacted[a] = failover[t].contacted[b] => a = b
    /\ ret[t].state = "raised" =>
         /\ ret[t].msg = <<"All OI-VSCode API endpoints failed">>
         /\ Len(failover[t].contacted) = Len(api_endpoints)
         /\ Range(failover[t].contacted) = Range(api_endpoints)
         /\ \A e \in Range(api_endpoints) : ~Succeeds(upstream[t].mirrors[e])

\* C4 witness: all four mirrors were contacted and the call raised
EveryMirrorTriedThenRaised ==
  \E t \in Tasks :
    /\ pc[t] = "done"
    /\ ret[t].state = "raised"
    /\ Len(failover[t].contacted) = 4
    /\ Cardinality(Range(failover[t].contacted)) = 4

\* C5 (as claimed): a finished request for a model of OIVSCodeProvider whose
\* mirrors all fail made the adapter raise "All OI-VSCode API endpoints
\* failed" and got HTTP 500.
MirroredModelAllFailGives500 ==
  \A t \in Tasks :
    ( /\ pc[t] = "done"
      /\ request[t].model \in Range(OIVSCodeModels)
      /\ upstream[t].kind = "mirrors"
      /\ \A e \in Range(api_endpoints) : ~Succeeds(upstream[t].mirrors[e]) ) =>
      /\ ret[t] = Raised(<<"All OI-VSCode API endpoints failed">>)
      /\ response[t].status = 500

\* the words of a text, without split(): where a word starts, where the word
\* starting at a ends, the n-th word
WordStarts(s) == {a \in 1..Len(s) : ~IsSpace(s[a]) /\ (a = 1 \/ IsSpace(s[a - 1]))}

WordEnd(s, a) == Least({b \in a..Len(s) : b = Len(s) \/ IsSpace(s[b + 1])})

NthWord(s, n) ==
  LET a == CHOOSE x \in WordStarts(s) : Cardinality({y \in WordStarts(s) : y <= x}) = n
  IN  SubSeq(s, a, WordEnd(s, a))

NumWords(s) == Cardinality(WordStarts(s))

\* the content the k-th content chunk (k = 1, 2, ...) is to carry
ExpectedChunk(s, k) ==
  LET n == NumWords(s)
      first == 3 * (k - 1) + 1
  IN  (IF k > 1 THEN <<" ">> ELSE <<>>)
      \o NthWord(s, first)
      \o (IF first + 1 <= n THEN <<" ">> \o NthWord(s, first + 1) ELSE <<>>)
      \o (IF first + 2 <= n THEN <<" ">> \o NthWord(s, first + 2) ELSE <<>>)

HasContent(frame) == frame.delta # <<>>

\* ceil(n / 3)
Windows(n) == (n + 2) \div 3

\* C6: the content chunks yielded so far are, in order, the windows of three
\* words of the text, each joined by single spaces and space-prefixed unless
\* first, each with finish_reason null; once the loop is over there are
\* exactly ceil(n/3) of them.
ContentChunksAreWordWindows ==
  \A t \in Tasks :
    LET s == emitter[t].content
        chunks == SelectSeq(out[t], HasContent)
    IN  /\ Len(chunks) <= Windows(NumWords(s))
        /\ \A k \in 1..Len(chunks) :
             chunks[k] =
               [data |-> "chat.completion.chunk", model |-> emitter[t].model,
                delta |-> << <<"content", ExpectedChunk(s, k)>> >>,
                finish_reason |-> "null"]
        /\ pc[t] \in {"sentinel", "done"} => Len(chunks) = Windows(NumWords(s))

\* C6 witness: four words, separated by blanks and a newline, were streamed
\* as "a b a" and " b"
FourWordsInTwoChunks ==
  \E t \in Tasks :
    /\ pc[t] = "done"
    /\ emitter[t].content = <<"a", " ", "b", "\n", "a", " ", "b">>
    /\ Len(out[t]) = 4
    /\ out[t][1].delta = << <<"content", <<"a", " ", "b", " ", "a">> >> >>
    /\ out[t][2].delta = << <<"content", <<" ", "b">> >> >>

\* C7: in every state the frames are content chunks with finish_reason null,
\* then at most one chunk with an empty delta and finish_reason "stop" that
\* comes after all ceil(n/3) content chunks, then at most one [DONE] frame
\* right after it; a finished run has both, and nothing follows [DONE].
StreamClosesWithStopThenDone ==
  \A t \in Tasks :
    LET o == out[t]
        w == Windows(NumWords(emitter[t].content))
    IN  /\ \A k \in 1..Len(o) :
             /\ k <= w => (HasContent(o[k]) /\ o[k].finish_reason = "null"
                           /\ o[k].data = "chat.completion.chunk")
             /\ k = w + 1 => o[k] = [data |-> "chat.completion.chunk",
                                     model |-> emitter[t].model, delta |-> <<>>,
                                     finish_reason |-> "stop"]
             /\ k = w + 2 => o[k] = [data |-> "[DONE]", model |-> "", delta |-> <<>>,
                                     finish_reason |-> "null"]
             /\ k <= w + 2
        /\ pc[t] = "done" => Len(o) = w + 2
        /\ Len(o) = w + 2 => pc[t] = "done"

\* C7 witness: the run on the empty text ended after the stop chunk and [DONE]
EmptyTextClosed ==
  \E t \in Tasks :
    /\ pc[t] = "done"
    /\ emitter[t].content = <<>>
    /\ Len(out[t]) = 2
    /\ out[t][1].finish_reason = "stop"
    /\ out[t][2].data = "[DONE]"

\* adapters (by position in PROVIDERS) whose get_models() has the id
Declarers(m) == {k \in 1..Len(PROVIDERS) : m \in Range(PROVIDERS[k].models)}

Declared == UNION {Range(PROVIDERS[k].models) : k \in 1..Len(PROVIDERS)}

Greatest(S) == CHOOSE x \in S : \A y \in S : y <= x

\* C8: once the module is loaded, ALL_MODELS holds every declared id exactly
\* once, every id in it is mapped to the name of exactly one entry of
\* PROVIDERS, and no request got the 500 "No provider found" answer.
RegistryResolvesEveryModel ==
  Serving =>
    /\ \A a, b \in 1..Len(ALL_MODELS) : ALL_MODELS[a] = ALL_MODELS[b] => a = b
    /\ Range(ALL_MODELS) = Declared
    /\ \A m \in Range(ALL_MODELS) :
         /\ m \in DOMAIN MODEL_PROVIDER_MAP
         /\ Cardinality({k \in 1..Len(PROVIDERS) :
                           PROVIDERS[k].name = MODEL_PROVIDER_MAP[m]}) = 1
    /\ \A t \in Tasks : response[t].status # 500

\* C8 witness: adapters declared some id more than once, the module is
\* loaded, and a request was resolved to an adapter
DuplicatesDeclaredAndResolved ==
  /\ Serving
  /\ Len(Concat([k \in 1..Len(PROVIDERS) |-> PROVIDERS[k].models])) > Len(ALL_MODELS)
  /\ \E t \in Tasks : pc[t] \in ProviderKeys(PROVIDERS)

\* C9: an id that several adapters declare is in ALL_MODELS once and mapped to
\* the adapter registered last among them; every request for it went there.
CollisionLastWriteWins ==
  Serving =>
    \A m \in Declared :
      Cardinality(Declarers(m)) >= 2 =>
        LET winner == PROVIDERS[Greatest(Declarers(m))].name
        IN  /\ Cardinality({a \in 1..Len(ALL_MODELS) : ALL_MODELS[a] = m}) = 1
            /\ MODEL_PROVIDER_MAP[m] = winner
            /\ \A t \in Tasks :
                 (pc[t] # "idle" /\ request[t].model = m) => pc[t] = winner

\* C9 witness: a request for an id that the first and a later adapter both
\* declare was handed to the later one
ShadowedAdapterSkipped ==
  \E t \in Tasks :
    /\ Serving
    /\ 1 \in Declarers(request[t].model)
    /\ Cardinality(Declarers(request[t].model)) >= 2
    /\ pc[t] = PROVIDERS[Greatest(Declarers(request[t].model))].name
    /\ pc[t] # PROVIDERS[1].name

\* C10 (as claimed): no response an adapter returned has an empty message
\* content.
NoEmptyContentReturned ==
  \A t \in Tasks :
    ret[t].state = "returned" => ret[t].value[1].choices[1].message.content # <<>>


\* sum over the messages of the number of whitespace-delimited words
RECURSIVE PromptWords(_)
PromptWords(messages) ==
  IF messages = <<>> THEN 0
  ELSE NumWords(Head(messages).content) + PromptWords(Tail(messages))

\* C11 (as claimed): in every response returned by the TypefullyProvider,
\* CloudflareProvider, FlowithProvider or MinimaxProvider, prompt_tokens is
\* the number of whitespace-delimited words of all request messages and
\* completion_tokens is the number of whitespace-delimited words of the
\* message content the response carries.
UsageCountsWordsOfReturnedContent ==
  \A t \in Tasks :
    (ret[t].state = "returned"
       /\ Range(invoked[t]) \subseteq {"typefully", "cloudflare", "flowith", "minimax"}) =>
      LET resp == ret[t].value[1]
      IN  /\ resp.usage.prompt_tokens = PromptWords(request[t].messages)
          /\ resp.usage.completion_tokens = NumWords(resp.choices[1].message.content)

\* C12 (as claimed): in every response an adapter returned, total_tokens is
\* prompt_tokens plus completion_tokens.
TotalTokensIsTheSum ==
  \A t \in Tasks :
    ret[t].state = "returned" =>
      LET usage == ret[t].value[1].usage
      IN  usage.total_tokens = usage.prompt_tokens + usage.completion_tokens

\* C13 (as claimed): every response an adapter returned has exactly one
\* choice, with index 0, a message of role assistant and finish_reason
\* "stop", and names the requested model.
OneAssistantChoiceThatStopped ==
  \A t \in Tasks :
    ret[t].state = "returned" =>
      LET resp == ret[t].value[1]
      IN  /\ Len(resp.choices) = 1
          /\ resp.choices[1].index = 0
          /\ resp.choices[1].message.role = "assistant"
          /\ resp.choices[1].finish_reason = "stop"
          /\ resp.model = request[t].model

\* C14 (as claimed): once the module is loaded, no step of any request
\* changes PROVIDERS, ALL_MODELS, MODEL_PROVIDER_MAP or sys.path.
RequestsLeaveGlobalsAlone ==
  [][Serving => (registry' = registry /\ sys_path' = sys_path)]_vars

\* a request has been accepted and its response is not complete
InFlight(t) == pc[t] \notin {"idle", "done"}

\* the task stands at an await or a call that waits for the network or for
\* the pacing delay
Waiting(t) ==
  \/ pc[t] \in {"typefully.post", "cloudflare.post", "minimax.post", "flowith.chat"}
  \/ pc[t] \in {"stream", "sentinel"} /\ out[t] # <<>>

\* C15 (as claimed): while a task waits for its upstream or for the pacing
\* delay, every other request in flight can take its next step.
WaitingSuspendsOnlyTheWaiter ==
  \A t, u \in Tasks :
    (t # u /\ Waiting(t) /\ InFlight(u)) => ENABLED Step(u)

\* the frames of a complete stream of the text s: the content chunks, the
\* stop chunk, [DONE]
IsCompleteStream(o, s) ==
  LET w == Windows(NumWords(s))
  IN  /\ Len(o) = w + 2
      /\ \A k \in 1..w : HasContent(o[k]) /\ o[k].finish_reason = "null"
      /\ o[w + 1].delta = <<>> /\ o[w + 1].finish_reason = "stop"
      /\ o[w + 2].data = "[DONE]"

\* C16: a frame is only ever emitted for a streaming request whose adapter has
\* returned, and the text being streamed is the returned message content; a
\* request the adapter failed got one HTTP 500 and no frame; a finished
\* streaming request is either a complete stream or one error response with
\* no frame at all.
StreamOnlyAfterAdapterReturned ==
  \A t \in Tasks :
    /\ out[t] # <<>> =>
         /\ request[t].stream
         /\ ret[t].state = "returned"
         /\ response[t] = [status |-> 200, detail |-> <<>>, body |-> <<>>,
                           streaming |-> TRUE]
         /\ emitter[t].content = ret[t].value[1].choices[1].message.content
    /\ ret[t].state = "raised" =>
         /\ response[t].status = 500 /\ ~response[t].streaming
         /\ out[t] = <<>>
         /\ pc[t] = "done"
    /\ ret[t].state = "none" => out[t] = <<>>
    /\ (pc[t] = "done" /\ request[t].stream) =>
         \/ /\ response[t].status = 200
            /\ response[t].streaming
            /\ IsCompleteStream(out[t], ret[t].value[1].choices[1].message.content)
         \/ /\ response[t].status \in {400, 500}
            /\ out[t] = <<>>

\* C16 witness: a streaming request whose adapter returned a four-word
\* content ended after two content chunks, the stop chunk and [DONE]
BufferedAnswerStreamedWhole ==
  \E t \in Tasks :
    /\ pc[t] = "done"
    /\ request[t].stream
    /\ ret[t].state = "returned"
    /\ NumWords(ret[t].value[1].choices[1].message.content) = 4
    /\ Len(out[t]) = 4
    /\ out[t][4].data = "[DONE]"

\* the user-role messages of a request
UserMessages(messages) == {k \in 1..Len(messages) : messages[k].role = "user"}

\* C17 (as claimed): a request handed to FlowithProvider.chat_completion whose
\* messages do not hold exactly one user message has failed with an error by
\* the time the adapter first gives up control: no client was built and
\* ai.chat was not called.
FlowithNeedsExactlyOneUserMessage ==
  \A t \in Tasks :
    ("flowith" \in Range(invoked[t])
       /\ Cardinality(UserMessages(request[t].messages)) # 1) =>
      /\ pc[t] = "done"
      /\ ret[t].state = "raised"
      /\ response[t].status = 500

\* C18 (as claimed): an extractor called on the line 0:"<e>", e the escaped
\* form of a text, returned exactly that text; called on a chunk without the
\* pattern it returned the empty string.
ExtractorUndoesEscaping ==
  \A t \in Tasks :
    extractor[t].called # "" =>
      extractor[t].value =
        (IF extractor[t].text = <<>> THEN <<>> ELSE extractor[t].text[1])

\* the lines of an SSE body that come before its first [DONE] line
BeforeDone(lines) ==
  LET dones == {k \in 1..Len(lines) : lines[k].type = "done"}
  IN  IF dones = {} THEN lines ELSE SubSeq(lines, 1, Least(dones) - 1)

\* the reasoning_content fragments and the content fragments collected from
\* them, each in arrival order
ReasoningOf(lines) ==
  Concat([k \in 1..Len(lines) |->
            IF lines[k].type = "delta" THEN lines[k].reasoning_content ELSE <<>>])

AnswerOf(lines) ==
  Concat([k \in 1..Len(lines) |->
            IF lines[k].type = "delta" THEN lines[k].content ELSE <<>>])

\* C19: the content of a response MinimaxProvider returned is "<thinking>\n",
\* the reasoning fragments received before [DONE] in arrival order,
\* "\n</thinking>\n\n" and the answer text when some non-empty reasoning
\* fragment was received, and the answer text alone, without any thinking
\* block, when none was; the answer text is the content fragments received
\* before [DONE], or the placeholder when there are none.
ThinkingBlockIffReasoningCollected ==
  \A t \in Tasks :
    (ret[t].state = "returned" /\ invoked[t] = <<"minimax">>) =>
      LET got == BeforeDone(upstream[t].lines)
          answer == IF AnswerOf(got) = <<>>
                    THEN <<"No", " ", "response", " ", "generated">>
                    ELSE AnswerOf(got)
          content == ret[t].value[1].choices[1].message.content
      IN  IF \E k \in 1..Len(got) :
               got[k].type = "delta" /\ got[k].reasoning_content # <<>>
          THEN content = <<"<thinking>", "\n">> \o ReasoningOf(got)
                         \o <<"\n", "</thinking>", "\n", "\n">> \o answer
          ELSE content = answer /\ "<thinking>" \notin Range(content)

\* C19 witness: two reasoning fragments came before [DONE] and one after it;
\* the response carries the block with the first two, then the answer
TwoReasoningFragmentsInBlock ==
  \E t \in Tasks :
    /\ ret[t].state = "returned"
    /\ invoked[t] = <<"minimax">>
    /\ ret[t].value[1].choices[1].message.content =
         <<"<thinking>", "\n", "s", "o", " ", "i", "t", "\n", "</thinking>", "\n", "\n",
           "o", "k">>

\* what the client of a finished dispatcher call holds: one error and nothing
\* else, one JSON body, or one complete stream
OneOutcome(t) ==
  \/ /\ response[t].status \in {400, 500}
     /\ response[t].body = <<>> /\ ~response[t].streaming /\ out[t] = <<>>
     /\ ret[t].state # "returned"
  \/ /\ response[t].status = 200 /\ ~response[t].streaming
     /\ Len(response[t].body) = 1 /\ out[t] = <<>>
     /\ ret[t].state = "returned"
  \/ /\ response[t].status = 200 /\ response[t].streaming
     /\ response[t].body = <<>>
     /\ ret[t].state = "returned"
     /\ IsCompleteStream(out[t], emitter[t].content)

\* C20: every call that was started ends; a finished dispatcher call left
\* exactly one outcome; OIVSCodeProvider has at no time contacted more
\* mirrors than are configured, and when it has ended it returned or raised;
\* the emitter has at no time yielded more than ceil(n/3) + 2 frames.
EveryCallEndsWithOneOutcome ==
  /\ [](\A t \in Tasks :
          /\ (pc[t] = "done" /\ request[t] # NoRequest /\ failover[t] = NoFailover)
               => OneOutcome(t)
          /\ Len(failover[t].contacted) <= Len(api_endpoints)
          /\ (pc[t] = "done" /\ failover[t] # NoFailover) => ret[t].state # "none"
          /\ Len(out[t]) <= Windows(NumWords(emitter[t].content)) + 2)
  /\ \A t \in Tasks : (pc[t] # "idle") ~> (pc[t] = "done")

\* C20 witness: the mirror tried first timed out, the call went on to the
\* second one and ended with its answer after two upstream calls
TimeoutMovedOnToNextMirror ==
  \E t \in Tasks :
    /\ pc[t] = "done"
    /\ Len(failover[t].contacted) = 2
    /\ upstream[t].mirrors[failover[t].contacted[1]].kind = "timeout"
    /\ ret[t].state = "returned"

\* the text a client of the stream holds: the delta contents of the content
\* chunks, in emission order, one after the other
StreamedText(frames) ==
  LET chunks == SelectSeq(frames, HasContent)
  IN  Concat([k \in 1..Len(chunks) |-> chunks[k].delta[1][2]])

\* the words of s from the n-th on, one space between two of them
RECURSIVE WordsJoinedFrom(_, _)
WordsJoinedFrom(s, n) ==
  IF n > NumWords(s) THEN <<>>
  ELSE (IF n > 1 THEN <<" ">> ELSE <<>>) \o NthWord(s, n) \o WordsJoinedFrom(s, n + 1)

\* no whitespace at either end, and every whitespace character is one blank
\* standing alone between two words
SingleSpaced(s) ==
  /\ s # <<>> => (~IsSpace(s[1]) /\ ~IsSpace(s[Len(s)]))
  /\ \A i \in 1..Len(s) :
       IsSpace(s[i]) => (s[i] = " " /\ (i < Len(s) => ~IsSpace(s[i + 1])))

\* C21: once the loop of a stream is over, the delta contents of its content
\* chunks, concatenated in emission order, are the words of the answer text
\* joined by single spaces; this is the answer text itself (the content a
\* non-streamed response carries) exactly when the text has no leading or
\* trailing whitespace and its words are separated by single spaces only,
\* and differs from it otherwise.
StreamedTextIsWordsSingleSpaced ==
  \A t \in Tasks :
    (pc[t] \in {"sentinel", "done"} /\ out[t] # <<>>) =>
      LET s == emitter[t].content
          streamed == StreamedText(out[t])
      IN  /\ streamed = WordsJoinedFrom(s, 1)
          /\ (streamed = s) <=> SingleSpaced(s)

\* C21 witness: the finished stream of "a\nb" reads "a b", which is not the
\* text that was streamed
NewlineStreamedAsBlank ==
  \E t \in Tasks :
    /\ pc[t] = "done"
    /\ emitter[t].content = <<"a", "\n", "b">>
    /\ StreamedText(out[t]) = <<"a", " ", "b">>
    /\ StreamedText(out[t]) # emitter[t].content
====
